---- MODULE Spec2Model ----
(***************************************************************************)
(* Model of the Schnorr canister (src/src/lib.rs).                         *)
(*                                                                         *)
(* The canister keeps two pieces of stable state: the map `seeds` from a   *)
(* key id to a 64-byte seed and the cell `sig_count`.  `init` arms a       *)
(* zero-delay timer whose callback spawns one task per declared key; each  *)
(* task awaits raw_rand and then inserts the seed if none is stored.       *)
(* `schnorr_public_key`, `sign_with_schnorr` and `http_request` are the    *)
(* entry points.  A canister executes one message at a time; a panic       *)
(* (`expect`, `unwrap`, `ic_cdk::trap`) traps the message and the state    *)
(* changes made by that message are discarded.  sign_with_schnorr is       *)
(* modelled statement group by statement group (pc) so that the order of   *)
(* its effects inside one message is visible; no other message starts      *)
(* while pc # "idle".                                                      *)
(*                                                                         *)
(* Cryptography is symbolic: hashes are injective term constructors, a     *)
(* scalar is a formal sum (sequence) of atoms, a curve point is the        *)
(* scalar multiple of the generator it stands for.                         *)
(***************************************************************************)
EXTENDS Integers, Sequences, FiniteSets, TLC

VARIABLES seeds, sig_count, timer, task, pc, cur, saved, resp, signed_ok, pinned

vars == <<seeds, sig_count, timer, task, pc, cur, saved, resp, signed_ok, pinned>>

----------------------------------------------------------------------------
(* Bounds of the exploration *)

\* number of caller-supplied derivation path segments in a request
MaxPathLen == 1

\* value of the counter, and number of signatures returned, up to which
\* sign_with_schnorr calls are explored
MaxSigs == 2

----------------------------------------------------------------------------
(* Data *)

\* SchnorrKeyIds::variants
variants == <<"DfxTestKey", "TestKey1">>

\* SchnorrKeyIds::to_key_id
to_key_id(v) == IF v = "DfxTestKey" THEN "dfx_test_key" ELSE "test_key_1"

KeyVariants == {variants[i] : i \in 1..Len(variants)}

DeclaredNames == {to_key_id(v) : v \in KeyVariants}

\* key ids a request can carry: the declared ones and one that is not
RequestNames == DeclaredNames \cup {"other_key"}

\* principals (their byte representation) that call the canister
Principals == {"p1", "p2"}

\* byte strings a caller can supply as derivation path segment: one that
\* equals a principal's bytes and one that does not
Segments == {"p2", "s"}

RECURSIVE SeqsUpTo(_, _)
SeqsUpTo(S, n) ==
    IF n = 0 THEN {<<>>}
    ELSE LET shorter == SeqsUpTo(S, n - 1)
         IN  shorter \cup {Append(q, x) : q \in {r \in shorter : Len(r) = n - 1}, x \in S}

Paths == SeqsUpTo(Segments, MaxPathLen)

\* length of the seed array, [u8; 64]
SEED_LEN == 64

\* length of a message digest accepted by Message::from_digest_slice
DIGEST_LEN == 32

\* a byte vector is abstracted to its length and the blocks it was built of
Vec(len, blocks) == [len |-> len, blocks |-> blocks]

\* answers of raw_rand: the management canister answers with 32 bytes; lengths
\* next to it are kept so that the conversion to [u8; 64] can fail
RandAnswers == {Vec(l, <<r>>) : l \in {31, 32, 33}, r \in {"r1", "r2"}}

\* messages of a sign request: a digest, and byte strings one shorter and longer
Messages == {Vec(l, <<"m">>) : l \in {DIGEST_LEN - 1, DIGEST_LEN, DIGEST_LEN + 1}}

\* Option::None of seeds.get
NoSeed == Vec(0, <<>>)

\* values of canister_balance128 the metrics endpoint can observe
Balances == {7, 8}

----------------------------------------------------------------------------
(* Symbolic cryptography: the library calls made by the two handlers *)

\* a keyed hash (HMAC-SHA512, tagged SHA256) as an injective term
Hash(key, data) == [key |-> key, data |-> data]

\* the left and the right half of a 64-byte hash output
IL(I) == [h |-> "IL", in |-> I]

IR(I) == [h |-> "IR", in |-> I]

\* a fixed hash key or tag
Tag(name) == [h |-> name, in |-> <<>>]

\* a scalar is a formal sum of atoms, a point the multiple of the generator
ScalarAdd(x, y) == x \o y

BaseMult(x) == [pt |-> x]

PointAdd(P, Q) == [pt |-> P.pt \o Q.pt]

\* bip32 XPrv::new: the master key of a seed
XPrv_new(seed) ==
    LET I == Hash(Tag("Bitcoin seed"), <<seed>>)
    IN  [private_key |-> <<IL(I)>>, chain_code |-> IR(I)]

\* DerivationPath::key_derivation: one non-hardened step per path segment on
\* the public key
RECURSIVE key_derivation(_, _, _)
key_derivation(public_key, chain_code, path) ==
    IF path = <<>>
    THEN [derived_public_key |-> public_key, derived_chain_code |-> chain_code]
    ELSE LET I == Hash(chain_code, <<public_key, Head(path)>>)
         IN  key_derivation(PointAdd(public_key, BaseMult(<<IL(I)>>)), IR(I), Tail(path))

\* DerivationPath::private_key_derivation: the same steps on the private scalar
RECURSIVE private_key_derivation(_, _, _)
private_key_derivation(private_key, chain_code, path) ==
    IF path = <<>>
    THEN [derived_private_key |-> private_key, derived_chain_code |-> chain_code]
    ELSE LET I == Hash(chain_code, <<BaseMult(private_key), Head(path)>>)
         IN  private_key_derivation(ScalarAdd(private_key, <<IL(I)>>), IR(I), Tail(path))

\* Message::from_digest_slice accepts exactly 32 bytes
from_digest_slice_ok(message) == message.len = DIGEST_LEN

\* Secp256k1::sign_schnorr_no_aux_rand: nonce k from key and message only,
\* R = k*G, e = H(R, P, m), s = k + e*d
sign_schnorr_no_aux_rand(message, d) ==
    LET k == <<IL(Hash(Tag("BIP0340/nonce"), <<BaseMult(d), d, message>>))>>
        R == BaseMult(k)
        e == Hash(Tag("BIP0340/challenge"), <<R, BaseMult(d), message>>)
    IN  [R |-> R, s |-> [k |-> k, e |-> e, d |-> d]]

\* Secp256k1::verify_schnorr: s*G = R + e*P with e = H(R, P, m)
verify_schnorr(sig, message, P) ==
    /\ sig.s.e = Hash(Tag("BIP0340/challenge"), <<sig.R, P, message>>)
    /\ BaseMult(sig.s.k) = sig.R
    /\ BaseMult(sig.s.d) = P

----------------------------------------------------------------------------
(* The pure parts of the canister code *)

\* init_sig_count: the cell starts at 0u128 on empty stable memory
init_sig_count == 0

\* init_stable_data: the map starts empty
init_stable_data == [n \in RequestNames |-> NoSeed]

\* let master_chain_code = [0u8; 32]
master_chain_code == Tag("zero")

\* Option::None of SchnorrPublicKey.canister_id
None == "none"

\* mutant: the vector is padded with zeros to 64 bytes (resize instead of
\* extend)
extend_with_zeros(rand) == Vec(SEED_LEN, rand.blocks \o <<"zero">>)

\* get_random_seed, Ok branch: rand.extend(rand.clone())
extend_with_clone(rand) == Vec(rand.len + rand.len, rand.blocks \o rand.blocks)

\* get_random_seed, Ok branch: rand.try_into() of [u8; 64] succeeds
try_into_ok(rand) == rand.len = SEED_LEN

\* mutant: the test of the get is inverted (and_then instead of or_else)
get_or_insert_inverted(m, key, seed) ==
    IF m[key] = NoSeed THEN m ELSE [m EXCEPT ![key] = seed]

\* mutant: the insert names a fixed key id instead of the task's own
get_or_insert_fixed_key(m, key, seed) ==
    IF m[key] # NoSeed THEN m ELSE [m EXCEPT !["dfx_test_key"] = seed]

\* init task: seeds.get(key).or_else(|| seeds.insert(key, seed))
get_or_insert(m, key, seed) ==
    IF m[key] # NoSeed THEN m ELSE [m EXCEPT ![key] = seed]

\* mutant: the canister_id of the request is ignored
public_key_path_ignore_override(canister_id, caller, derivation_path) ==
    <<caller>> \o derivation_path

\* schnorr_public_key: the derivation path it builds
public_key_path(canister_id, caller, derivation_path) ==
    <<IF canister_id # None THEN canister_id ELSE caller>> \o derivation_path

\* mutant: the caller is pushed after the caller-supplied segments
sign_path_tenant_last(caller, derivation_path) ==
    derivation_path \o <<caller>>

\* sign_with_schnorr: the derivation path it builds
sign_path(caller, derivation_path) ==
    <<caller>> \o derivation_path

\* mutant: the tenant segment is left out of the public derivation
public_key_reply_skip_tenant(seed, path) ==
    LET root_xprv == XPrv_new(seed)
        key_bytes == root_xprv.private_key
        public_key_sec1 == BaseMult(key_bytes)
        res == key_derivation(public_key_sec1, master_chain_code, Tail(path))
    IN  [public_key |-> res.derived_public_key, chain_code |-> res.derived_chain_code]

\* schnorr_public_key after the seed lookup: master key, its public key,
\* public derivation along the path, reply
public_key_reply(seed, path) ==
    LET root_xprv == XPrv_new(seed)
        key_bytes == root_xprv.private_key
        public_key_sec1 == BaseMult(key_bytes)
        res == key_derivation(public_key_sec1, master_chain_code, path)
    IN  [public_key |-> res.derived_public_key, chain_code |-> res.derived_chain_code]

\* mutant: the derivation starts from the chain code of the master key
sign_derive_root_chain_code(seed, path) ==
    LET root_xprv == XPrv_new(seed)
        private_key_bytes == root_xprv.private_key
    IN  private_key_derivation(private_key_bytes, root_xprv.chain_code, path)

\* sign_with_schnorr after the counter write: master key and private derivation
sign_derive(seed, path) ==
    LET root_xprv == XPrv_new(seed)
        private_key_bytes == root_xprv.private_key
    IN  private_key_derivation(private_key_bytes, master_chain_code, path)

\* mutant: the counter is handed to the signer as auxiliary randomness
sign_reply_aux_rand(derived_private_key, message) ==
    [signature |-> sign_schnorr_no_aux_rand(message, derived_private_key),
     aux_rand |-> sig_count]

\* mutant: the reply carries the derived private key next to the signature
sign_reply_with_key(derived_private_key, message) ==
    [signature |-> sign_schnorr_no_aux_rand(message, derived_private_key),
     private_key |-> derived_private_key]

\* sign_with_schnorr: the reply built from the signature
sign_reply(derived_private_key, message) ==
    [signature |-> sign_schnorr_no_aux_rand(message, derived_private_key)]

\* http_request: the metrics serialized into the body
metrics_reply(balance, count) ==
    [status_code |-> 200, body |-> [balance |-> balance, sig_count |-> count]]

----------------------------------------------------------------------------
(* State *)

\* no message is executing: the value of cur and of saved
NoCall == [op |-> "none"]

\* no reply yet: before the first call and while a call executes
NoResp == [op |-> "none", status |-> "none"]

TypeOK ==
    /\ seeds \in [RequestNames -> {NoSeed} \cup {extend_with_clone(r) : r \in RandAnswers}]
    /\ sig_count \in 0..MaxSigs
    /\ timer \in {"armed", "fired"}
    /\ task \in [KeyVariants -> {"none", "awaiting", "done", "bad_length", "no_random"}]
    /\ pc \in {"idle", "increment", "derive", "sign"}
    /\ signed_ok \in 0..MaxSigs

\* the state after install: State::default() and init, which arms the timer
Init ==
    /\ seeds = init_stable_data
    /\ sig_count = init_sig_count
    /\ timer = "armed"
    /\ task = [v \in KeyVariants |-> "none"]
    /\ pc = "idle"
    /\ cur = NoCall
    /\ saved = NoCall
    /\ resp = NoResp
    /\ signed_ok = 0
    /\ pinned = NoResp

----------------------------------------------------------------------------
(* Initialization: the timer callback and the per-key tasks *)

\* the zero-delay timer fires: every variant's task is spawned and runs up to
\* its await of raw_rand
TimerFires ==
    /\ pc = "idle"
    /\ timer = "armed"
    /\ timer' = "fired"
    /\ task' = [v \in KeyVariants |-> "awaiting"]
    /\ UNCHANGED <<seeds, sig_count, pc, cur, saved, resp, signed_ok, pinned>>

\* raw_rand answers Ok(rand): the task builds the seed and inserts it if the
\* key has none; a vector that is not 64 bytes long panics in try_into
RandReply(v, rand) ==
    /\ pc = "idle"
    /\ task[v] = "awaiting"
    /\ LET seed == extend_with_clone(rand)
       IN  IF try_into_ok(seed)
           THEN /\ seeds' = get_or_insert(seeds, to_key_id(v), seed)
                /\ task' = [task EXCEPT ![v] = "done"]
           ELSE /\ seeds' = seeds
                /\ task' = [task EXCEPT ![v] = "bad_length"]
    /\ UNCHANGED <<sig_count, timer, pc, cur, saved, resp, signed_ok, pinned>>

\* mutant: on Err the task stores an all-zero seed instead of trapping
RandReject_zero_seed(v) ==
    /\ pc = "idle"
    /\ task[v] = "awaiting"
    /\ seeds' = [seeds EXCEPT ![to_key_id(v)] = Vec(SEED_LEN, <<"zero", "zero">>)]
    /\ task' = [task EXCEPT ![v] = "no_random"]
    /\ UNCHANGED <<sig_count, timer, pc, cur, saved, resp, signed_ok, pinned>>

\* raw_rand answers Err: the task traps
RandReject(v) ==
    /\ pc = "idle"
    /\ task[v] = "awaiting"
    /\ task' = [task EXCEPT ![v] = "no_random"]
    /\ UNCHANGED <<seeds, sig_count, timer, pc, cur, saved, resp, signed_ok, pinned>>

----------------------------------------------------------------------------
(* schnorr_public_key *)

PublicKeyResp(arg, caller, status, path, reply, derived) ==
    [op |-> "public_key", status |-> status, caller |-> caller, arg |-> arg,
     path |-> path, reply |-> reply, derived |-> derived,
     count_before |-> sig_count, count_after |-> sig_count]

\* mutant: a missing seed is created on demand (entry().or_insert instead of
\* get().expect)
schnorr_public_key_provisions(caller, arg) ==
    /\ pc = "idle"
    /\ LET seed == IF seeds[arg.key_id] = NoSeed THEN Vec(SEED_LEN, <<"zero", "zero">>)
                   ELSE seeds[arg.key_id]
           path == public_key_path(arg.canister_id, caller, arg.derivation_path)
       IN  /\ seeds' = [seeds EXCEPT ![arg.key_id] = seed]
           /\ resp' = PublicKeyResp(arg, caller, "ok", path, public_key_reply(seed, path), TRUE)
    /\ UNCHANGED <<sig_count, timer, task, pc, cur, saved, signed_ok, pinned>>

\* the whole handler: seed lookup (panics when absent), path, derivation, reply
schnorr_public_key(caller, arg) ==
    /\ pc = "idle"
    /\ IF seeds[arg.key_id] = NoSeed
       THEN resp' = PublicKeyResp(arg, caller, "NotFound", <<>>, NoCall, FALSE)
       ELSE LET path == public_key_path(arg.canister_id, caller, arg.derivation_path)
            IN  resp' = PublicKeyResp(arg, caller, "ok", path,
                                      public_key_reply(seeds[arg.key_id], path), TRUE)
    /\ UNCHANGED <<seeds, sig_count, timer, task, pc, cur, saved, signed_ok, pinned>>

----------------------------------------------------------------------------
(* sign_with_schnorr, in the order of its statements *)

SignResp(call, status, reply, count_after) ==
    [op |-> "sign", status |-> status, caller |-> call.caller, arg |-> call.arg,
     path |-> call.path, reply |-> reply,
     derived |-> call.derived, signed |-> call.signed, set_ok |-> call.set_ok,
     count_before |-> call.count_before, count_after |-> count_after]

\* mutant: a missing seed is replaced by an all-zero seed (unwrap_or instead
\* of expect)
SignLookup_default_seed(caller, arg) ==
    /\ pc = "idle"
    /\ sig_count < MaxSigs
    /\ signed_ok < MaxSigs
    /\ pc' = "increment"
    /\ cur' = [op |-> "sign", caller |-> caller, arg |-> arg, path |-> <<>>,
               seed |-> IF seeds[arg.key_id] = NoSeed THEN Vec(SEED_LEN, <<"zero", "zero">>)
                        ELSE seeds[arg.key_id],
               key |-> <<>>, derived |-> FALSE, signed |-> FALSE, set_ok |-> FALSE,
               count_before |-> sig_count]
    /\ saved' = [seeds |-> seeds, sig_count |-> sig_count]
    /\ resp' = NoResp
    /\ UNCHANGED <<seeds, sig_count, timer, task, signed_ok, pinned>>

\* the call starts and looks the seed up; expect panics when there is none
SignLookup(caller, arg) ==
    /\ pc = "idle"
    /\ sig_count < MaxSigs
    /\ signed_ok < MaxSigs
    /\ LET call == [op |-> "sign", caller |-> caller, arg |-> arg, path |-> <<>>,
                    seed |-> seeds[arg.key_id], key |-> <<>>,
                    derived |-> FALSE, signed |-> FALSE, set_ok |-> FALSE,
                    count_before |-> sig_count]
       IN  IF seeds[arg.key_id] = NoSeed
           THEN /\ resp' = SignResp(call, "NotFound", NoCall, sig_count)
                /\ UNCHANGED <<pc, cur, saved>>
           ELSE /\ pc' = "increment"
                /\ cur' = call
                /\ saved' = [seeds |-> seeds, sig_count |-> sig_count]
                /\ resp' = NoResp
    /\ UNCHANGED <<seeds, sig_count, timer, task, signed_ok, pinned>>

\* "Increment the signature count": get, then set; the Result of set is
\* discarded (let _ =), so a failed write goes unnoticed
SignIncrement ==
    /\ pc = "increment"
    /\ \E set_ok \in BOOLEAN :
          LET current_count == sig_count
          IN  /\ sig_count' = IF set_ok THEN current_count + 1 ELSE current_count
              /\ cur' = [cur EXCEPT !.set_ok = set_ok]
    /\ pc' = "derive"
    /\ UNCHANGED <<seeds, timer, task, saved, resp, signed_ok, pinned>>

\* master key, path, private derivation and key pair
SignDerive ==
    /\ pc = "derive"
    /\ LET path == sign_path(cur.caller, cur.arg.derivation_path)
           res == sign_derive(cur.seed, path)
       IN  cur' = [cur EXCEPT !.path = path, !.key = res.derived_private_key,
                              !.derived = TRUE]
    /\ pc' = "sign"
    /\ UNCHANGED <<seeds, sig_count, timer, task, saved, resp, signed_ok, pinned>>

\* mutant: the panic of the digest parse is caught and answered as an error,
\* so the call commits what it wrote
SignSign_keeps_writes ==
    /\ pc = "sign"
    /\ IF from_digest_slice_ok(cur.arg.message)
       THEN /\ resp' = SignResp([cur EXCEPT !.signed = TRUE], "ok",
                                sign_reply(cur.key, cur.arg.message), sig_count)
            /\ signed_ok' = signed_ok + 1
       ELSE /\ resp' = SignResp(cur, "BadDigest", NoCall, sig_count)
            /\ signed_ok' = signed_ok
    /\ pc' = "idle"
    /\ cur' = NoCall
    /\ saved' = NoCall
    /\ UNCHANGED <<seeds, sig_count, timer, task, pinned>>

\* the message is parsed as a digest (expect panics unless it has 32 bytes:
\* the call traps and its state changes are discarded), signed, and the
\* signature is returned
SignSign ==
    /\ pc = "sign"
    /\ IF from_digest_slice_ok(cur.arg.message)
       THEN /\ resp' = SignResp([cur EXCEPT !.signed = TRUE], "ok",
                                sign_reply(cur.key, cur.arg.message), sig_count)
            /\ signed_ok' = signed_ok + 1
            /\ UNCHANGED <<seeds, sig_count>>
       ELSE /\ resp' = SignResp(cur, "BadDigest", NoCall, saved.sig_count)
            /\ seeds' = saved.seeds
            /\ sig_count' = saved.sig_count
            /\ signed_ok' = signed_ok
    /\ pc' = "idle"
    /\ cur' = NoCall
    /\ saved' = NoCall
    /\ UNCHANGED <<timer, task, pinned>>

----------------------------------------------------------------------------
(* http_request *)

\* mutant: the metrics view counts itself as a use of the canister
http_request_counts(balance) ==
    /\ pc = "idle"
    /\ sig_count < MaxSigs
    /\ sig_count' = sig_count + 1
    /\ resp' = [op |-> "http", status |-> "ok", reply |-> metrics_reply(balance, sig_count),
                count_before |-> sig_count, count_after |-> sig_count + 1]
    /\ UNCHANGED <<seeds, timer, task, pc, cur, saved, signed_ok, pinned>>

\* the whole handler: reads the counter and the balance, replies with both
http_request(balance) ==
    /\ pc = "idle"
    /\ resp' = [op |-> "http", status |-> "ok", reply |-> metrics_reply(balance, sig_count),
                count_before |-> sig_count, count_after |-> sig_count]
    /\ UNCHANGED <<seeds, sig_count, timer, task, pc, cur, saved, signed_ok, pinned>>

----------------------------------------------------------------------------
(* Specification *)

\* arguments of schnorr_public_key
PublicKeyArgs ==
    [canister_id : Principals \cup {None}, derivation_path : Paths, key_id : RequestNames]

\* arguments of sign_with_schnorr
SignArgs ==
    [message : Messages, derivation_path : Paths, key_id : RequestNames]

TaskResumes(v) ==
    \/ \E rand \in RandAnswers : RandReply(v, rand)
    \/ RandReject(v)

SignRuns ==
    \/ SignIncrement
    \/ SignDerive
    \/ SignSign

Next ==
    \/ TimerFires
    \/ \E v \in KeyVariants, rand \in RandAnswers : RandReply(v, rand)
    \/ \E v \in KeyVariants : RandReject(v)
    \/ \E caller \in Principals, arg \in PublicKeyArgs : schnorr_public_key(caller, arg)
    \/ \E caller \in Principals, arg \in SignArgs : SignLookup(caller, arg)
    \/ SignIncrement
    \/ SignDerive
    \/ SignSign
    \/ \E balance \in Balances : http_request(balance)

Spec == Init /\ [][Next]_vars

\* the same steps with the requests drawn from the inputs that matter to the
\* seeding: every key id and message, one caller, no segments
SeedingNext ==
    \/ TimerFires
    \/ \E v \in KeyVariants, rand \in RandAnswers : RandReply(v, rand)
    \/ \E v \in KeyVariants : RandReject(v)
    \/ \E arg \in PublicKeyArgs :
          arg.derivation_path = <<>> /\ arg.canister_id = None /\ schnorr_public_key("p1", arg)
    \/ \E arg \in SignArgs : arg.derivation_path = <<>> /\ SignLookup("p1", arg)
    \/ SignIncrement
    \/ SignDerive
    \/ SignSign
    \/ \E balance \in Balances : http_request(balance)

\* the timer fires, every raw_rand call is answered, a started message runs
\* to its end
FairSpec ==
    /\ Init /\ [][SeedingNext]_vars
    /\ WF_vars(TimerFires)
    /\ \A v \in KeyVariants : SF_vars(TaskResumes(v))
    /\ WF_vars(SignRuns)

\* observer: the reply of one successful call is kept for comparison with
\* the replies of later calls
Remember ==
    /\ pc = "idle"
    /\ pinned = NoResp
    /\ resp.op \in {"sign", "public_key"}
    /\ resp.status = "ok"
    /\ pinned' = resp
    /\ UNCHANGED <<seeds, sig_count, timer, task, pc, cur, saved, resp, signed_ok>>

\* the steps of Next with the requests drawn from the declared key ids, the
\* digests and one path of one segment, together with the observer
ReplayNext ==
    \/ TimerFires
    \/ \E v \in KeyVariants, rand \in RandAnswers : RandReply(v, rand)
    \/ \E v \in KeyVariants : RandReject(v)
    \/ \E caller \in Principals, arg \in PublicKeyArgs :
          /\ arg.key_id \in DeclaredNames
          /\ arg.derivation_path = <<"s">>
          /\ schnorr_public_key(caller, arg)
    \/ \E caller \in Principals, arg \in SignArgs :
          /\ arg.key_id \in DeclaredNames
          /\ arg.derivation_path = <<"s">>
          /\ from_digest_slice_ok(arg.message)
          /\ SignLookup(caller, arg)
    \/ SignIncrement
    \/ SignDerive
    \/ SignSign
    \/ \E balance \in Balances : http_request(balance)
    \/ Remember

ReplaySpec == Init /\ [][ReplayNext]_vars

----------------------------------------------------------------------------
(* Properties *)

\* the variant whose key id a request names
VariantOf(key_id) == CHOOSE v \in KeyVariants : to_key_id(v) = key_id

TaskFailed(v) == task[v] \in {"no_random", "bad_length"}

Seeded(key_id) == seeds[key_id] # NoSeed

AllSeeded == \A n \in DeclaredNames : Seeded(n)

SignReplied == resp.op = "sign" /\ resp.status = "ok"

\* C1: sign_with_schnorr writes the counter only after derivation and signature
\* have both succeeded: a call that has written the counter has derived and
\* signed, and a call that failed in signing never wrote it.
C1_IncrementOnlyAfterSigning ==
    /\ (pc # "idle" /\ sig_count # saved.sig_count) => (cur.derived /\ cur.signed)
    /\ (resp.op = "sign" /\ resp.status = "BadDigest") => ~resp.set_ok

\* C2: whenever no call is executing, the counter equals its initial value plus
\* the number of sign calls that returned a signature, and a failed sign call
\* leaves the counter as it was.
C2_CounterCountsSignatures ==
    /\ pc = "idle" => sig_count = init_sig_count + signed_ok
    /\ (resp.op = "sign" /\ resp.status # "ok") => resp.count_after = resp.count_before

\* C3: a returned signature implies that the write of the incremented counter
\* committed: the call that replied wrote count_before + 1.
C3_SignatureImpliesIncrement ==
    SignReplied => (resp.set_ok /\ resp.count_after = resp.count_before + 1)

C5_EventuallySeeded ==
    /\ (<>(\E v \in KeyVariants : TaskFailed(v))) \/ <>[]AllSeeded
    /\ [][\A n \in DeclaredNames :
            (Seeded(n) /\ resp' # resp /\ resp'.status = "NotFound")
                => resp'.arg.key_id # n]_vars

\* C5 witness: both tasks are done, both declared key ids are seeded and a
\* public key was returned for one of them.
C5_Witness ==
    /\ \A v \in KeyVariants : task[v] = "done"
    /\ AllSeeded
    /\ resp.op = "public_key" /\ resp.status = "ok"

\* C6: a public-key or sign call that names a key id without stored seed is
\* answered NotFound in the step that starts it, and a NotFound answer comes
\* with no derivation, signature or reply value, with seeds and counter
\* unchanged and with nothing of the call left running; a sign call gets
\* past the lookup only for a seeded key id.
C6_NotFoundWithoutEffect ==
    [][/\ (resp' # resp /\ resp'.op \in {"sign", "public_key"})
            => /\ ~Seeded(resp'.arg.key_id) <=> resp'.status = "NotFound"
               /\ resp'.status = "NotFound"
                    => /\ resp'.reply = NoCall
                       /\ ~resp'.derived
                       /\ resp'.op = "sign" => (~resp'.signed /\ ~resp'.set_ok)
                       /\ seeds' = seeds
                       /\ sig_count' = sig_count
                       /\ pc = "idle" /\ pc' = "idle" /\ cur' = NoCall
       /\ (pc = "idle" /\ pc' # "idle") => Seeded(cur'.arg.key_id)]_vars

\* C6 witness: a sign call for a declared key id was answered NotFound while
\* its task was still waiting for raw_rand.
C6_Witness ==
    /\ resp.op = "sign" /\ resp.status = "NotFound"
    /\ resp.arg.key_id \in DeclaredNames
    /\ task[VariantOf(resp.arg.key_id)] = "awaiting"
    /\ pc = "idle"

\* C7: a task whose raw_rand call failed has written nothing: its key id has
\* no seed and calls naming it are answered NotFound, while a task that
\* completed has its seed stored whatever happened to the other task.
C7_FailedFetchStoresNothing ==
    \A v \in KeyVariants :
        /\ task[v] = "no_random"
            => /\ ~Seeded(to_key_id(v))
               /\ (resp.op \in {"sign", "public_key"} /\ resp.arg.key_id = to_key_id(v))
                    => resp.status = "NotFound"
        /\ task[v] = "done" => Seeded(to_key_id(v))

\* C7 witness: one task failed in raw_rand, the other stored its seed, and a
\* sign call for the failed key id was answered NotFound.
C7_Witness ==
    \E v, w \in KeyVariants :
        /\ task[v] = "no_random" /\ task[w] = "done"
        /\ Seeded(to_key_id(w)) /\ ~Seeded(to_key_id(v))
        /\ resp.op = "sign" /\ resp.status = "NotFound"
        /\ resp.arg.key_id = to_key_id(v)

PublicKeyFor(key_id, caller, derivation_path) ==
    public_key_reply(seeds[key_id], public_key_path(None, caller, derivation_path)).public_key

\* C9: a returned signature verifies, with the signed digest, against the
\* public key schnorr_public_key returns to the same caller for the same key
\* id and segments, and against no public key returned for other segments.
C9_SignatureVerifies ==
    SignReplied =>
        LET sig == resp.reply.signature
            msg == resp.arg.message
            key_id == resp.arg.key_id
        IN  /\ verify_schnorr(sig, msg, PublicKeyFor(key_id, resp.caller, resp.arg.derivation_path))
            /\ \A P \in Paths \ {resp.arg.derivation_path} :
                  ~verify_schnorr(sig, msg, PublicKeyFor(key_id, resp.caller, P))

\* C9 witness: a signature was returned for a request with a path segment.
C9_Witness ==
    /\ SignReplied
    /\ Len(resp.arg.derivation_path) >= 1

\* C10: for the seed and path of a sign call, the public key of the derived
\* private scalar is the public key that public derivation returns, and the
\* two derivations end with the same chain code.
C10_PublicMatchesPrivate ==
    pc = "sign" =>
        LET pub == public_key_reply(cur.seed, cur.path)
            priv == sign_derive(cur.seed, cur.path)
        IN  /\ cur.key = priv.derived_private_key
            /\ pub.public_key = BaseMult(cur.key)
            /\ pub.chain_code = priv.derived_chain_code

\* C10 witness: a sign call has derived its key along a path of the caller
\* and a supplied segment.
C10_Witness ==
    /\ pc = "sign"
    /\ cur.derived
    /\ Len(cur.path) >= 2

\* the tenant of a reply: the caller, or the canister_id a public-key request
\* names
TenantOf(r) ==
    IF r.op = "public_key" /\ r.arg.canister_id # None THEN r.arg.canister_id ELSE r.caller

\* the reply answers the same request as the remembered one: same operation,
\* key id, tenant, segments and, for a sign call, message
SameRequest(r, q) ==
    /\ r.op = q.op
    /\ r.arg.key_id = q.arg.key_id
    /\ TenantOf(r) = TenantOf(q)
    /\ r.arg.derivation_path = q.arg.derivation_path
    /\ r.op = "sign" => r.arg.message = q.arg.message

\* C11: a successful call returns what a remembered earlier successful call
\* with the same key id, tenant, segments (and digest) returned, whatever the
\* counter was and whatever ran in between.
C11_SameRequestSameReply ==
    (pinned.status = "ok" /\ resp.status = "ok" /\ resp.op \in {"sign", "public_key"}
        /\ SameRequest(resp, pinned))
      => resp.reply = pinned.reply

\* C11 witness: a signature was returned for the request of a remembered
\* signature, by a call that found the counter at another value.
C11_Witness ==
    /\ pinned.status = "ok" /\ pinned.op = "sign"
    /\ SignReplied
    /\ SameRequest(resp, pinned)
    /\ resp.count_before # pinned.count_before

\* a step that answers a schnorr_public_key or an http_request call
ReadOnlyStep == resp' # resp /\ resp'.op \in {"public_key", "http"}

\* C12: schnorr_public_key and http_request leave the seed map and the counter
\* unchanged, whether they reply or fail; the counter changes only in a step of
\* sign_with_schnorr; the metrics reply carries the counter as stored when the
\* query ran
C12_ReadOnlyHandlers ==
    [][ /\ ReadOnlyStep => (seeds' = seeds /\ sig_count' = sig_count)
        /\ sig_count' # sig_count => (pc # "idle" /\ cur.op = "sign")
        /\ (ReadOnlyStep /\ resp'.op = "http") =>
              (resp'.reply.body.sig_count = sig_count /\ resp'.reply.body.sig_count = sig_count')
      ]_vars

C12_Witness ==
    /\ resp.op = "http"
    /\ sig_count > 0
    /\ resp.reply.body.sig_count = sig_count
    /\ AllSeeded

\* the remembered reply is a public key for another tenant than the caller of
\* the sign call `call`, for the same key id and segments
OtherTenantKey(call) ==
    /\ pinned.op = "public_key" /\ pinned.status = "ok"
    /\ pinned.arg.key_id = call.arg.key_id
    /\ pinned.arg.derivation_path = call.arg.derivation_path
    /\ TenantOf(pinned) # call.caller

\* C13: for the same key id and segments, the private scalar a sign call of
\* one tenant derives is not the private key of the public key returned for
\* another tenant, and the signature it returns does not verify against it.
C13_TenantsSeparated ==
    /\ (pc = "sign" /\ OtherTenantKey(cur)) => BaseMult(cur.key) # pinned.reply.public_key
    /\ (SignReplied /\ OtherTenantKey(resp))
         => ~verify_schnorr(resp.reply.signature, resp.arg.message, pinned.reply.public_key)

\* C13 witness: a caller got the public key of another tenant by naming it as
\* canister_id, and then a signature for the same key id and segments.
C13_Witness ==
    /\ SignReplied
    /\ OtherTenantKey(resp)
    /\ pinned.caller = resp.caller

\* the shapes of the public values: a point, a chain code (the right half of
\* a hash output), a signature (a point and the response scalar k + e*d)
IsPoint(x) == DOMAIN x = {"pt"}

IsChainCode(x) == DOMAIN x = {"h", "in"} /\ x.h = "IR"

IsSignature(x) ==
    /\ DOMAIN x = {"R", "s"}
    /\ IsPoint(x.R)
    /\ DOMAIN x.s = {"k", "e", "d"}

\* C14: a public-key reply consists of a public key and a chain code, a sign
\* reply of a signature, a metrics reply of the balance and the counter; a
\* failed call replies nothing; no field of a reply is a stored seed, and the
\* private scalars occur only under the base-point multiplication of a public
\* key or in the response scalar of a signature.
C14_RepliesCarryNoSecret ==
    /\ resp.op \in {"public_key", "sign"} /\ resp.status # "ok" => resp.reply = NoCall
    /\ (resp.op = "public_key" /\ resp.status = "ok") =>
          /\ DOMAIN resp.reply = {"public_key", "chain_code"}
          /\ IsPoint(resp.reply.public_key)
          /\ IsChainCode(resp.reply.chain_code)
          /\ \A n \in DeclaredNames :
                seeds[n] \notin {resp.reply.public_key, resp.reply.chain_code}
    /\ SignReplied =>
          /\ DOMAIN resp.reply = {"signature"}
          /\ IsSignature(resp.reply.signature)
          /\ \A n \in DeclaredNames :
                seeds[n] \notin {resp.reply.signature, resp.reply.signature.R,
                                 resp.reply.signature.s}
    /\ resp.op = "http" =>
          /\ DOMAIN resp.reply = {"status_code", "body"}
          /\ DOMAIN resp.reply.body = {"balance", "sig_count"}
          /\ resp.reply.body.balance \in Balances
          /\ resp.reply.body.sig_count \in 0..MaxSigs

\* C14 witness: a signature made with the private scalar derived from the
\* stored seed was returned.
C14_Witness ==
    /\ SignReplied
    /\ resp.reply.signature.s.d =
          sign_derive(seeds[resp.arg.key_id], resp.path).derived_private_key
    /\ resp.arg.key_id = "test_key_1"

\* a step in which the task of variant v stores its seed
TaskStores(v) ==
    /\ task[v] = "awaiting" /\ task'[v] = "done"
    /\ seeds' = [seeds EXCEPT ![to_key_id(v)] = seeds'[to_key_id(v)]]

\* C15: only the declared key ids have a seed; the seed map changes only when
\* the task of a declared variant stores that variant's seed, never in a
\* request; a request that names any other key id fails with NotFound.
C15_OnlyDeclaredKeys ==
    /\ [](\A n \in RequestNames : Seeded(n) => n \in DeclaredNames)
    /\ []((resp.op \in {"public_key", "sign"} /\ resp.arg.key_id \notin DeclaredNames)
            => (resp.status = "NotFound" /\ resp.reply = NoCall))
    /\ [][seeds' # seeds => (resp' = resp /\ \E v \in KeyVariants : TaskStores(v))]_vars

\* C15 witness: with both declared key ids seeded, a sign request naming
\* another key id was answered with NotFound.
C15_Witness ==
    /\ AllSeeded
    /\ resp.op = "sign"
    /\ resp.arg.key_id \notin DeclaredNames
    /\ resp.status = "NotFound"

\* C16: a sign call whose message is not 32 bytes long returns no signature,
\* and after it the counter has the value it had before the call.
C16_BadDigestFails ==
    /\ SignReplied => resp.arg.message.len = DIGEST_LEN
    /\ (resp.op = "sign" /\ resp.arg.message.len # DIGEST_LEN) =>
          /\ resp.status \in {"NotFound", "BadDigest"}
          /\ resp.reply = NoCall
          /\ resp.count_after = resp.count_before
          /\ sig_count = resp.count_before

\* C16 witness: a call with a 33-byte message wrote the counter, failed at the
\* digest parse, and the counter is back at a value above zero.
C16_Witness ==
    /\ resp.op = "sign" /\ resp.status = "BadDigest"
    /\ resp.arg.message.len = DIGEST_LEN + 1
    /\ resp.set_ok
    /\ resp.count_before > 0
    /\ sig_count = resp.count_before

\* C17: a stored seed has 64 bytes, the 32 bytes of one answer of raw_rand
\* followed by the same bytes again; a task whose answer did not have 32 bytes
\* failed and its key id has no seed.
C17_SeedIsDoubledFetch ==
    /\ \A n \in RequestNames :
          Seeded(n) =>
              /\ seeds[n].len = SEED_LEN
              /\ Len(seeds[n].blocks) = 2
              /\ seeds[n].blocks[1] = seeds[n].blocks[2]
              /\ \E rand \in RandAnswers :
                    /\ 2 * rand.len = SEED_LEN
                    /\ seeds[n].blocks = rand.blocks \o rand.blocks
    /\ \A v \in KeyVariants : task[v] = "bad_length" => ~Seeded(to_key_id(v))

\* C17 witness: one task stored a doubled answer, the other got an answer of
\* another length and stored nothing.
C17_Witness ==
    \E v, w \in KeyVariants :
        /\ task[v] = "bad_length" /\ ~Seeded(to_key_id(v))
        /\ task[w] = "done" /\ Seeded(to_key_id(w))
        /\ seeds[to_key_id(w)].blocks = <<"r2", "r2">>

====
